---- MODULE Spec2Model ----
(***************************************************************************)
(* Model of find-insecure-gh-repos.py: a sequential script that lists the  *)
(* repositories of an organization through the gh command line client and  *)
(* checks, for each one, the protection and the required signatures of its *)
(* primary branch.                                                         *)
(*                                                                         *)
(* Every external command is one step of the model.  Its outcome (exit     *)
(* status and standard output) is the input of the step, drawn from a      *)
(* small set of bodies.  Python values are modelled by their repr as a     *)
(* string ("True", "False", "None", "0", "'yes'"); standard output is the  *)
(* sequence of the chunks written to it.                                   *)
(***************************************************************************)
EXTENDS Integers, Sequences, FiniteSets, TLC

\* Largest number of repositories a listing of the model returns.
MaxRepos == 2

VARIABLES
    pc,                  \* position of the script
    argv,                \* sys.argv
    org_name,            \* main: org_name
    repos_json,          \* main: repos_json, what run_command returned for the listing
    repos,               \* main: repos, the parsed listing
    total_repos,         \* main: total_repos
    i,                   \* main: index of enumerate(repos, 1)
    repo_name,           \* main: repo_name
    issues,              \* main: issues of the repository being evaluated
    branch_idx,          \* position of the loop over ['main', 'master']
    branch,              \* main: branch
    is_protected,        \* main: is_protected
    signatures_required, \* main: signatures_required (a Python value)
    non_compliant_count, \* main: non_compliant_count
    stdout,              \* the chunks written to standard output, in order
    exit_code,           \* the exit status of the process, NoExit while it runs
    uncaught,            \* the exception that ended the process, "" when none
    calls,               \* the commands run for the current repository (before
                         \* the first repository: since the start), with outcomes
    report               \* per evaluated repository, its name and final issues

vars == << pc, argv, org_name, repos_json, repos, total_repos, i, repo_name,
           issues, branch_idx, branch, is_protected, signatures_required,
           non_compliant_count, stdout, exit_code, uncaught, calls, report >>

-----------------------------------------------------------------------------
(* Python values *)

None == "<None>"            \* what run_command returns when the command fails
PyNone == "None"            \* JSON null
PyTrue == "True"
PyFalse == "False"
PyZero == "0"
PyYes == "'yes'"
NoExit == 0 - 1

\* bool(v) of a Python value held in signatures_required
PyTruthy(v) == v \in {PyTrue, PyYes}

\* bool(s) of what run_command returned: None and "" are false
Truthy(s) == s # None /\ s # ""

RECURSIVE Spaces(_)
Spaces(n) == IF n = 0 THEN "" ELSE " " \o Spaces(n - 1)

-----------------------------------------------------------------------------
(* The external commands and their outcomes *)

ProgName == "find-insecure-gh-repos.py"
OrgArg == "acme"
ArgvSet == { <<ProgName>>, <<ProgName, OrgArg>>, <<ProgName, OrgArg, "extra">> }

RepoName(k) == "repo" \o ToString(k)

RECURSIVE RepoItemsJson(_)
RepoItemsJson(n) ==
    IF n = 0 THEN ""
    ELSE (IF n = 1 THEN "" ELSE RepoItemsJson(n - 1) \o ",")
         \o "{\"name\":\"" \o RepoName(n) \o "\"}"

\* the output of `gh repo list --json name` for an organization of n repositories
RepoListJson(n) == "[" \o RepoItemsJson(n) \o "]"

BlankOut == "\n"
Garbage == "not json"
BranchJson == "{\"name\":\"b\",\"protected\":false}"
ProtectionJson == "{\"enforce_admins\":{\"enabled\":true}}"
SigEnabled(v) == "{\"enabled\":" \o v \o "}"
SigBodies == { SigEnabled("true"), SigEnabled("false"), SigEnabled("null"),
               SigEnabled("0"), SigEnabled("\"yes\"") }

Failed == [ok |-> FALSE, out |-> ""]
Ok(body) == [ok |-> TRUE, out |-> body]

ListOutcomes ==
    {Failed} \cup { Ok(b) : b \in {"", BlankOut, Garbage} }
             \cup { Ok(RepoListJson(n)) : n \in 0..MaxRepos }
BranchOutcomes == {Failed} \cup { Ok(b) : b \in {"", BlankOut, BranchJson} }
ProtectionOutcomes == {Failed} \cup { Ok(b) : b \in {"", ProtectionJson} }
SignatureOutcomes ==
    {Failed} \cup { Ok(b) : b \in {"", Garbage, "[]", "{}"} \cup SigBodies }

\* str.strip() on the bodies of the model: only BlankOut has surrounding whitespace
strip(s) == IF s = BlankOut THEN "" ELSE s

\* run_command: the stripped output, None when the command exits non-zero
run_command(r) == IF r.ok THEN strip(r.out) ELSE None

ListCmd(org) == "gh repo list " \o org \o " --limit 1000 --json name"
BranchCmd(org, repo, b) ==
    "gh api repos/" \o org \o "/" \o repo \o "/branches/" \o b
ProtectionCmd(org, repo, b) == BranchCmd(org, repo, b) \o "/protection"
SignaturesCmd(org, repo, b) ==
    ProtectionCmd(org, repo, b) \o "/required_signatures"

\* json.loads on the bodies of the model
json_loads(s) ==
    IF \E n \in 0..(MaxRepos + 1) : s = RepoListJson(n)
    THEN LET n == CHOOSE m \in 0..(MaxRepos + 1) : s = RepoListJson(m)
         IN [type |-> "list", items |-> [k \in 1..n |-> [name |-> RepoName(k)]],
             has_enabled |-> FALSE, enabled |-> PyNone]
    ELSE IF s \in {"{}", BranchJson, ProtectionJson}
    THEN [type |-> "dict", items |-> <<>>, has_enabled |-> FALSE, enabled |-> PyNone]
    ELSE IF s \in SigBodies
    THEN [type |-> "dict", items |-> <<>>, has_enabled |-> TRUE,
          enabled |-> CASE s = SigEnabled("true") -> PyTrue
                        [] s = SigEnabled("false") -> PyFalse
                        [] s = SigEnabled("null") -> PyNone
                        [] s = SigEnabled("0") -> PyZero
                        [] OTHER -> PyYes]
    ELSE [type |-> "JSONDecodeError", items |-> <<>>, has_enabled |-> FALSE,
          enabled |-> PyNone]

\* faulty variant of Branches: master probed before main
BranchesMasterFirst == << "master", "main" >>

\* line 63: the branches probed, in order
Branches == << "main", "master" >>

\* faulty variant of check_branch_protection: `return bool(protection)`
check_branch_protection_truthy(r) == Truthy(run_command(r))

\* check_branch_protection, from the outcome of its command
check_branch_protection(r) == run_command(r) # None

\* check_required_signatures, from the outcome of its command: the value it
\* returns, or the exception it raises
check_required_signatures(r) ==
    LET signatures == run_command(r) IN
    IF Truthy(signatures)
    THEN LET j == json_loads(signatures) IN
         CASE j.type = "JSONDecodeError" -> [raised |-> "", value |-> PyFalse]
           [] j.type = "dict" ->
                [raised |-> "",
                 value |-> IF j.has_enabled THEN j.enabled ELSE PyFalse]
           [] OTHER -> [raised |-> "AttributeError", value |-> PyNone]
    ELSE [raised |-> "", value |-> PyFalse]

\* faulty variant of branch_found: `if branch_exists is not None:`
branch_found_not_none(s) == s # None

\* the test `if branch_exists:` of the probe's result
branch_found(s) == Truthy(s)

NotProtectedIssue(b) == "'" \o b \o "' branch is not protected"
NoSigningIssue(b) == "Commit signing not required for '" \o b \o "' branch"
NoBranchIssue == "No main or master branch found"

UsageLine(a) == "Usage: " \o a[1] \o " <organization-name>\n"
FetchingLine(org) == "Fetching repositories for organization: " \o org \o "...\n"
NoReposLine == "No repositories found or error accessing the organization.\n"
FoundLine(n) ==
    "Found " \o ToString(n)
    \o " repositories. Checking compliance for each repository...\n"
HeaderLine == "\nRepositories not meeting requirements:\n"
ProgressChunk(k, n, repo) ==
    "\rProcessing: " \o ToString(k) \o "/" \o ToString(n) \o " (" \o repo \o ")"
    \o Spaces(20)
ClearChunk == "\r" \o Spaces(80) \o "\r"
RepoLine(org, repo) == "\n" \o org \o "/" \o repo \o ":\n"
IssueLine(issue) == "  - " \o issue \o "\n"
AllMeetLine == "\nAll repositories meet the requirements.\n"
TotalLine(c, n) ==
    "\nTotal: " \o ToString(c) \o " non-compliant repositories out of "
    \o ToString(n) \o "\n"

IssueLines(is) == [k \in 1..Len(is) |-> IssueLine(is[k])]

-----------------------------------------------------------------------------
(* The script *)

Init ==
    /\ pc = "args"
    /\ argv \in ArgvSet
    /\ org_name = ""
    /\ repos_json = None
    /\ repos = <<>>
    /\ total_repos = 0
    /\ i = 0
    /\ repo_name = ""
    /\ issues = <<>>
    /\ branch_idx = 0
    /\ branch = ""
    /\ is_protected = FALSE
    /\ signatures_required = PyFalse
    /\ non_compliant_count = 0
    /\ stdout = <<>>
    /\ exit_code = NoExit
    /\ uncaught = ""
    /\ calls = <<>>
    /\ report = <<>>

\* sys.exit(code), or the end of the script
Exit(code, exc) ==
    /\ pc' = "exited"
    /\ exit_code' = code
    /\ uncaught' = exc

\* lines 33-40: the argument check
CheckArgs ==
    /\ pc = "args"
    /\ IF Len(argv) # 2
       THEN /\ stdout' = Append(stdout, UsageLine(argv))
            /\ Exit(1, "")
            /\ UNCHANGED org_name
       ELSE /\ org_name' = argv[2]
            /\ stdout' = Append(stdout, FetchingLine(argv[2]))
            /\ pc' = "list"
            /\ UNCHANGED << exit_code, uncaught >>
    /\ UNCHANGED << argv, repos_json, repos, total_repos, i, repo_name, issues,
                    branch_idx, branch, is_protected, signatures_required,
                    non_compliant_count, calls, report >>

\* lines 43-52: the listing
ListRepositories(r) ==
    /\ pc = "list"
    /\ calls' = Append(calls, [cmd |-> ListCmd(org_name), outcome |-> r])
    /\ repos_json' = run_command(r)
    /\ IF ~Truthy(run_command(r))
       THEN /\ stdout' = Append(stdout, NoReposLine)
            /\ Exit(1, "")
            /\ UNCHANGED << repos, total_repos >>
       ELSE LET j == json_loads(run_command(r)) IN
            IF j.type = "JSONDecodeError"
            THEN /\ Exit(1, "JSONDecodeError")
                 /\ UNCHANGED << repos, total_repos, stdout >>
            ELSE /\ repos' = j.items
                 /\ total_repos' = Len(j.items)
                 /\ stdout' = stdout \o << FoundLine(Len(j.items)), HeaderLine >>
                 /\ pc' = "for_repo"
                 /\ UNCHANGED << exit_code, uncaught >>
    /\ UNCHANGED << argv, org_name, i, repo_name, issues, branch_idx, branch,
                    is_protected, signatures_required, non_compliant_count,
                    report >>

\* lines 54-60: the next repository of the loop, or the end of the loop
NextRepo ==
    /\ pc = "for_repo"
    /\ IF i < Len(repos)
       THEN /\ i' = i + 1
            /\ repo_name' = repos[i + 1].name
            /\ issues' = <<>>
            /\ stdout' = Append(stdout,
                                ProgressChunk(i + 1, total_repos, repos[i + 1].name))
            /\ branch_idx' = 1
            /\ calls' = <<>>
            /\ pc' = "probe"
       ELSE /\ pc' = "summary"
            /\ UNCHANGED << i, repo_name, issues, stdout, branch_idx, calls >>
    /\ UNCHANGED << argv, org_name, repos_json, repos, total_repos, branch,
                    is_protected, signatures_required, non_compliant_count,
                    exit_code, uncaught, report >>

\* faulty variant of ProbeBranch: the checks go on after "No main or master
\* branch found" is recorded
ProbeBranch_Continue(r) ==
    /\ pc = "probe"
    /\ branch' = Branches[branch_idx]
    /\ calls' = Append(calls, [cmd |-> BranchCmd(org_name, repo_name,
                                                 Branches[branch_idx]),
                               outcome |-> r])
    /\ IF branch_found(run_command(r))
       THEN /\ pc' = "protection"
            /\ UNCHANGED << branch_idx, issues >>
       ELSE IF branch_idx < Len(Branches)
       THEN /\ branch_idx' = branch_idx + 1
            /\ pc' = "probe"
            /\ UNCHANGED issues
       ELSE /\ issues' = Append(issues, NoBranchIssue)
            /\ pc' = "protection"
            /\ UNCHANGED branch_idx
    /\ UNCHANGED << argv, org_name, repos_json, repos, total_repos, i, repo_name,
                    is_protected, signatures_required, non_compliant_count,
                    stdout, exit_code, uncaught, report >>

\* lines 63-66 and 79-81: one probe of the loop over ['main', 'master']
ProbeBranch(r) ==
    /\ pc = "probe"
    /\ branch' = Branches[branch_idx]
    /\ calls' = Append(calls, [cmd |-> BranchCmd(org_name, repo_name,
                                                 Branches[branch_idx]),
                               outcome |-> r])
    /\ IF branch_found(run_command(r))
       THEN /\ pc' = "protection"
            /\ UNCHANGED << branch_idx, issues >>
       ELSE IF branch_idx < Len(Branches)
       THEN /\ branch_idx' = branch_idx + 1
            /\ pc' = "probe"
            /\ UNCHANGED issues
       ELSE /\ issues' = Append(issues, NoBranchIssue)
            /\ pc' = "record"
            /\ UNCHANGED branch_idx
    /\ UNCHANGED << argv, org_name, repos_json, repos, total_repos, i, repo_name,
                    is_protected, signatures_required, non_compliant_count,
                    stdout, exit_code, uncaught, report >>

\* faulty variant of CheckProtection: the signatures check is not in the
\* else branch
CheckProtection_NoElse(r) ==
    /\ pc = "protection"
    /\ calls' = Append(calls, [cmd |-> ProtectionCmd(org_name, repo_name, branch),
                               outcome |-> r])
    /\ is_protected' = check_branch_protection(r)
    /\ IF ~check_branch_protection(r)
       THEN issues' = Append(issues, NotProtectedIssue(branch))
       ELSE UNCHANGED issues
    /\ pc' = "signatures"
    /\ UNCHANGED << argv, org_name, repos_json, repos, total_repos, i, repo_name,
                    branch_idx, branch, signatures_required, non_compliant_count,
                    stdout, exit_code, uncaught, report >>

\* lines 68-70: the protection check of the branch found
CheckProtection(r) ==
    /\ pc = "protection"
    /\ calls' = Append(calls, [cmd |-> ProtectionCmd(org_name, repo_name, branch),
                               outcome |-> r])
    /\ is_protected' = check_branch_protection(r)
    /\ IF ~check_branch_protection(r)
       THEN /\ issues' = Append(issues, NotProtectedIssue(branch))
            /\ pc' = "record"
       ELSE /\ pc' = "signatures"
            /\ UNCHANGED issues
    /\ UNCHANGED << argv, org_name, repos_json, repos, total_repos, i, repo_name,
                    branch_idx, branch, signatures_required, non_compliant_count,
                    stdout, exit_code, uncaught, report >>

\* lines 73-78: the required-signatures check of a protected branch
CheckSignatures(r) ==
    /\ pc = "signatures"
    /\ calls' = Append(calls, [cmd |-> SignaturesCmd(org_name, repo_name, branch),
                               outcome |-> r])
    /\ LET res == check_required_signatures(r) IN
       IF res.raised # ""
       THEN /\ Exit(1, res.raised)
            /\ UNCHANGED << signatures_required, issues >>
       ELSE /\ signatures_required' = res.value
            /\ issues' = IF ~PyTruthy(res.value)
                         THEN Append(issues, NoSigningIssue(branch))
                         ELSE issues
            /\ pc' = "record"
            /\ UNCHANGED << exit_code, uncaught >>
    /\ UNCHANGED << argv, org_name, repos_json, repos, total_repos, i, repo_name,
                    branch_idx, branch, is_protected, non_compliant_count,
                    stdout, report >>

\* faulty variant of RecordIssues: every repository is counted and printed
RecordIssues_Always ==
    /\ pc = "record"
    /\ report' = Append(report, [repo |-> repo_name, issues |-> issues])
    /\ non_compliant_count' = non_compliant_count + 1
    /\ stdout' = stdout \o << ClearChunk, RepoLine(org_name, repo_name) >>
                        \o IssueLines(issues)
    /\ pc' = "for_repo"
    /\ UNCHANGED << argv, org_name, repos_json, repos, total_repos, i, repo_name,
                    issues, branch_idx, branch, is_protected, signatures_required,
                    exit_code, uncaught, calls >>

\* lines 83-92: the end of one repository's evaluation
RecordIssues ==
    /\ pc = "record"
    /\ report' = Append(report, [repo |-> repo_name, issues |-> issues])
    /\ IF issues # <<>>
       THEN /\ non_compliant_count' = non_compliant_count + 1
            /\ stdout' = stdout \o << ClearChunk, RepoLine(org_name, repo_name) >>
                                \o IssueLines(issues)
       ELSE UNCHANGED << non_compliant_count, stdout >>
    /\ pc' = "for_repo"
    /\ UNCHANGED << argv, org_name, repos_json, repos, total_repos, i, repo_name,
                    issues, branch_idx, branch, is_protected, signatures_required,
                    exit_code, uncaught, calls >>

\* faulty variant of Summary: the "Total" line whatever the count
Summary_TotalAlways ==
    /\ pc = "summary"
    /\ stdout' = stdout \o << ClearChunk, TotalLine(non_compliant_count, total_repos) >>
    /\ Exit(0, "")
    /\ UNCHANGED << argv, org_name, repos_json, repos, total_repos, i, repo_name,
                    issues, branch_idx, branch, is_protected, signatures_required,
                    non_compliant_count, calls, report >>

\* lines 95-102: the summary, and the end of the script
Summary ==
    /\ pc = "summary"
    /\ stdout' = stdout \o << ClearChunk,
                              IF non_compliant_count = 0
                              THEN AllMeetLine
                              ELSE TotalLine(non_compliant_count, total_repos) >>
    /\ Exit(0, "")
    /\ UNCHANGED << argv, org_name, repos_json, repos, total_repos, i, repo_name,
                    issues, branch_idx, branch, is_protected, signatures_required,
                    non_compliant_count, calls, report >>

Next ==
    \/ CheckArgs
    \/ \E r \in ListOutcomes : ListRepositories(r)
    \/ NextRepo
    \/ \E r \in BranchOutcomes : ProbeBranch(r)
    \/ \E r \in ProtectionOutcomes : CheckProtection(r)
    \/ \E r \in SignatureOutcomes : CheckSignatures(r)
    \/ RecordIssues
    \/ Summary

Spec == Init /\ [][Next]_vars

-----------------------------------------------------------------------------
(* Vocabulary of the properties, stated on the commands run and their raw   *)
(* outcomes, and on the literal texts of the issues                         *)

BranchNames == {"main", "master"}

\* positions in the log of the current repository's calls to a command
CallsOf(cmd) == { k \in 1..Len(calls) : calls[k].cmd = cmd }
ProbeCalls(b) == CallsOf(BranchCmd(org_name, repo_name, b))
ProtectionCalls(b) == CallsOf(ProtectionCmd(org_name, repo_name, b))
SignatureCalls(b) == CallsOf(SignaturesCmd(org_name, repo_name, b))

\* the command succeeded with a body that is not blank
Answered(o) == o.ok /\ o.out \notin {"", BlankOut}

\* a probe of b found a branch
ProbeFound(b) == \E k \in ProbeCalls(b) : Answered(calls[k].outcome)
\* a probe of b was made and found no branch
ProbeMissed(b) == \E k \in ProbeCalls(b) : ~Answered(calls[k].outcome)

\* the resolved primary branch is b: main, else master
PrimaryIs(b) ==
    \/ b = "main" /\ ProbeFound("main")
    \/ b = "master" /\ ProbeMissed("main") /\ ProbeFound("master")

\* the protection call of b failed: the branch has no protection
ProtectionAbsent(b) == \E k \in ProtectionCalls(b) : ~calls[k].outcome.ok
\* the protection call of b returned a protection configuration
ProtectionPresent(b) == \E k \in ProtectionCalls(b) : Answered(calls[k].outcome)

\* the evaluation of the current repository is over
EvaluationOver == pc \in {"record", "for_repo", "summary", "exited"}

NonCompliant == { k \in 1..Len(report) : report[k].issues # <<>> }

\* C1: a listing that fails or returns zero repositories (an empty list
\* included) ends the run with the error message and exit code 1, with no
\* repository evaluated and no summary line.
C1_EmptyListingExits1 ==
    LET zero == \/ ~Truthy(repos_json)
                \/ /\ json_loads(repos_json).type = "list"
                   /\ Len(json_loads(repos_json).items) = 0
    IN  (pc \notin {"args", "list"} /\ Len(argv) = 2 /\ zero) =>
            /\ pc = "exited"
            /\ exit_code = 1
            /\ stdout[Len(stdout)]
                 = "No repositories found or error accessing the organization.\n"
            /\ report = <<>>
            /\ \A k \in 1..Len(stdout) :
                 stdout[k] # "\nAll repositories meet the requirements.\n"

\* C2: when the primary branch exists and its protection is absent, the issue
\* list is exactly the one "not protected" issue naming that branch, and the
\* required-signatures endpoint is never called for the repository.
C2_UnprotectedSingleIssue ==
    \A b \in BranchNames :
        (PrimaryIs(b) /\ ProtectionAbsent(b)) =>
            /\ EvaluationOver
            /\ issues = << "'" \o b \o "' branch is not protected" >>
            /\ \A c \in BranchNames : SignatureCalls(c) = {}

C2_Witness ==
    /\ pc = "record"
    /\ PrimaryIs("master")
    /\ ProtectionAbsent("master")

\* C3: when neither the main probe nor the master probe finds a branch, the
\* issue list is exactly "No main or master branch found", and neither the
\* protection nor the required-signatures endpoint is called.
C3_NoBranchSingleIssue ==
    (ProbeMissed("main") /\ ProbeMissed("master")) =>
        /\ EvaluationOver
        /\ issues = << "No main or master branch found" >>
        /\ \A c \in BranchNames : ProtectionCalls(c) = {} /\ SignatureCalls(c) = {}

C3_Witness ==
    /\ pc = "record"
    /\ ProbeMissed("main")
    /\ ProbeMissed("master")
    /\ Len(calls) = 2

\* the outcomes of the required-signatures lookup other than enabled=true:
\* the call fails, no body, a body that is not well-formed, a well-formed
\* body without an "enabled" field, enabled=false
SignaturesOff ==
    { Failed, Ok(""), Ok("not json"), Ok("[]"), Ok("{}"),
      Ok("{\"enabled\":false}") }

\* C4: when the primary branch is protected and the required-signatures lookup
\* yields anything other than enabled=true, no exception is raised, the issue
\* list is exactly the one "Commit signing not required" issue naming the
\* branch, and the scan goes on.
C4_SignaturesOffSingleIssue ==
    \A b \in BranchNames :
        \A k \in SignatureCalls(b) :
            ( /\ PrimaryIs(b)
              /\ ProtectionPresent(b)
              /\ calls[k].outcome \in SignaturesOff ) =>
                /\ uncaught = ""
                /\ exit_code # 1
                /\ issues
                     = << "Commit signing not required for '" \o b \o "' branch" >>

\* C5: when the primary branch exists, is protected and has required
\* signatures enabled, the issue list is empty, and the end of the evaluation
\* prints nothing (the progress chunk is the last thing written) and leaves
\* non_compliant_count as it is.
C5_CompliantSilent ==
    [][ \A b \in BranchNames :
          ( /\ PrimaryIs(b)
            /\ ProtectionPresent(b)
            /\ \E k \in SignatureCalls(b) :
                 calls[k].outcome = Ok("{\"enabled\":true}") ) =>
              /\ issues = <<>>
              /\ pc = "record" =>
                   /\ stdout[Len(stdout)]
                        = ProgressChunk(i, total_repos, repo_name)
                   /\ stdout' = stdout
                   /\ non_compliant_count' = non_compliant_count
                   /\ pc' = "for_repo" ]_vars

C5_Witness ==
    /\ pc = "for_repo"
    /\ Len(report) = 2
    /\ report[1].issues # <<>>
    /\ report[2].issues = <<>>
    /\ PrimaryIs("master")
    /\ ProtectionPresent("master")
    /\ \E k \in SignatureCalls("master") :
         calls[k].outcome = Ok("{\"enabled\":true}")

\* C6: the non-compliant count is the number of evaluated repositories whose
\* issue list is non-empty; the summary is the "All repositories meet the
\* requirements" line exactly when that number is zero, and otherwise the
\* "Total" line with that number and the number of repositories listed.
C6_SummaryCount ==
    /\ non_compliant_count = Cardinality(NonCompliant)
    /\ (pc = "exited" /\ exit_code = 0) =>
         /\ Len(report) = Len(repos)
         /\ total_repos = Len(repos)
         /\ stdout[Len(stdout)]
              = IF Cardinality(NonCompliant) = 0
                THEN "\nAll repositories meet the requirements.\n"
                ELSE "\nTotal: " \o ToString(Cardinality(NonCompliant))
                     \o " non-compliant repositories out of "
                     \o ToString(Len(repos)) \o "\n"

C6_Witness ==
    /\ pc = "exited"
    /\ exit_code = 0
    /\ Len(report) = 2
    /\ Cardinality(NonCompliant) = 1

\* C7: a run with one organization argument and a successful non-empty
\* listing ends with exit code 0, having evaluated each listed repository
\* once in listing order and printed the summary line once, whatever the
\* per-repository responses are.
C7_RunEndsWithSummary ==
    ( /\ pc = "exited"
      /\ Len(argv) = 2
      /\ Truthy(repos_json)
      /\ json_loads(repos_json).type = "list"
      /\ Len(json_loads(repos_json).items) >= 1 ) =>
        /\ exit_code = 0
        /\ Len(report) = Len(repos)
        /\ \A k \in 1..Len(report) : report[k].repo = repos[k].name
        /\ Cardinality({ k \in 1..Len(stdout) :
                           \/ stdout[k] = AllMeetLine
                           \/ stdout[k] = TotalLine(non_compliant_count,
                                                    total_repos) }) = 1

\* C8, as stated: check_branch_protection is true exactly when the protection
\* call succeeds with a non-empty body; a protection call that succeeds with
\* an empty body is reported as "not protected".
C8_EmptyProtectionIsUnprotected ==
    \A b \in BranchNames :
        \A k \in ProtectionCalls(b) :
            /\ is_protected = Answered(calls[k].outcome)
            /\ ~Answered(calls[k].outcome) =>
                 issues = << "'" \o b \o "' branch is not protected" >>

\* C8, amended: check_branch_protection is true exactly when the protection
\* call succeeds, whatever its body, an empty one included; it is false only
\* when the call fails, and only then is the "not protected" issue recorded;
\* after a successful call the required-signatures check follows.
C8_ProtectedIffCallSucceeds ==
    \A b \in BranchNames :
        \A k \in ProtectionCalls(b) :
            /\ is_protected = calls[k].outcome.ok
            /\ ~calls[k].outcome.ok =>
                 /\ issues = << "'" \o b \o "' branch is not protected" >>
                 /\ SignatureCalls(b) = {}
                 /\ EvaluationOver
            /\ calls[k].outcome.ok =>
                 /\ \A n \in 1..Len(issues) :
                      issues[n] # "'" \o b \o "' branch is not protected"
                 /\ pc = "signatures" \/ SignatureCalls(b) # {}

C8_Witness ==
    /\ pc = "signatures"
    /\ \E k \in ProtectionCalls("main") : calls[k].outcome = Ok("")
    /\ is_protected

\* the calls and the issues of the current repository name only branch b
UsesOnly(b) ==
    /\ branch = b
    /\ \A c \in BranchNames \ {b} : ProtectionCalls(c) = {} /\ SignatureCalls(c) = {}
    /\ \A n \in 1..Len(issues) :
         issues[n] \in { "'" \o b \o "' branch is not protected",
                         "Commit signing not required for '" \o b \o "' branch" }
    /\ pc # "probe"
    /\ pc = "protection" \/ ProtectionCalls(b) # {}

\* C9: main is probed first and master only if the main probe did
\* not find a branch; any non-error probe response, one with an empty body
\* included, counts as the branch existing, and the first existing branch is
\* the one the protection and signature checks and the issue text use.
C9_NonErrorProbeIsBranch ==
    /\ ProbeCalls("master") # {} => ProbeCalls("main") # {}
    /\ \A k \in ProbeCalls("main") :
         IF calls[k].outcome.ok
         THEN UsesOnly("main") /\ ProbeCalls("master") = {}
         ELSE pc = "probe" \/ ProbeCalls("master") # {}
    /\ \A k \in ProbeCalls("master") :
         calls[k].outcome.ok => UsesOnly("master")

\* The resolution as the script has it: main is probed first and master only if the main probe did
\* not find a branch; a probe finds a branch exactly when it succeeds with a
\* non-blank body (a failed probe and a successful probe with an empty body
\* both count as no branch), and the first branch found is the one the
\* protection and signature checks and the issue text use.
C9_NonBlankProbeIsBranch ==
    /\ ProbeCalls("master") # {} => ProbeCalls("main") # {}
    /\ \A k \in ProbeCalls("main") :
         /\ k = 1
         /\ IF Answered(calls[k].outcome)
            THEN UsesOnly("main") /\ ProbeCalls("master") = {}
            ELSE pc = "probe" \/ ProbeCalls("master") = {2}
    /\ \A k \in ProbeCalls("master") :
         IF Answered(calls[k].outcome)
         THEN UsesOnly("master")
         ELSE /\ \A c \in BranchNames :
                   ProtectionCalls(c) = {} /\ SignatureCalls(c) = {}
              /\ EvaluationOver

NonBlankProbe_Reached ==
    /\ pc = "record"
    /\ \E k \in ProbeCalls("main") : calls[k].outcome = Ok("")
    /\ ProbeFound("master")
    /\ issues = << "'master' branch is not protected" >>

\* the place of a call in the fixed order of one evaluation, 0 when it has none
Rank(k) ==
    CASE k \in ProbeCalls("main") -> 1
      [] k \in ProbeCalls("master") -> 2
      [] \E b \in BranchNames : k \in ProtectionCalls(b) -> 3
      [] \E b \in BranchNames : k \in SignatureCalls(b) -> 4
      [] OTHER -> 0

\* C10: one evaluation makes at most 4 calls in the order probe(main),
\* probe(master), protection, required-signatures, each at most once; the
\* protection call directly follows a probe that found its branch, the
\* signatures call directly follows a protection call that reported the same
\* branch protected, and at most one issue is recorded.
C10_AtMostFourCallsInOrder ==
    i >= 1 =>
        /\ Len(calls) <= 4
        /\ \A k \in 1..Len(calls) : Rank(k) # 0
        /\ \A j, k \in 1..Len(calls) : j < k => Rank(j) < Rank(k)
        /\ \A b \in BranchNames : \A k \in ProtectionCalls(b) :
             /\ k > 1
             /\ k - 1 \in ProbeCalls(b)
             /\ Answered(calls[k - 1].outcome)
        /\ \A b \in BranchNames : \A k \in SignatureCalls(b) :
             /\ k > 1
             /\ k - 1 \in ProtectionCalls(b)
             /\ is_protected
             /\ calls[k - 1].outcome.ok
        /\ Len(issues) <= 1

C10_Witness ==
    /\ pc = "record"
    /\ Len(calls) = 4
    /\ Len(issues) = 1
    /\ SignatureCalls("master") = {4}
====
